---- MODULE Spec2Model ----
(***************************************************************************)
(* A model of src/python/quadtree.py: the quadtree image approximation.    *)
(*                                                                         *)
(* An image is a width x height grid of RGB pixels.  The pixels of the     *)
(* model are grey, (v, v, v) with v drawn from Levels, so that the three   *)
(* channel histograms of a region coincide and the error of a region is an *)
(* exact rational computation.  A tree is an arena of Node objects keyed   *)
(* by their position (the root is <<>>, the i-th child of p is p \o <<i>>).*)
(* Two QuadTree objects (Trees) are built from the same image and the same *)
(* max_depth argument; Spec runs the first one and its renderings, DetSpec *)
(* builds both side by side, LiveSpec is the first one's build pass under  *)
(* the fairness of a single synchronous thread.                            *)
(*                                                                         *)
(* The Pillow calls are modelled by what they do: getbbox() is the         *)
(* bounding box of the non-zero pixels (None when there is none), crop()   *)
(* of None is the whole image, the histogram of an empty crop is all       *)
(* zeros, and ImageDraw.rectangle(None, ...) raises TypeError.             *)
(***************************************************************************)
EXTENDS Integers, Sequences, FiniteSets, TLC

\* ---------------------------------------------------------------- bounds
MaxW == 3
MaxH == 3
MaxPixels == 6
DetMaxPixels == 3
MaxDepthArg == 2

\* ------------------------------------------------------- program constants
ERROR_THRESHOLD == 13
\* the luma weights 0.2989, 0.5870, 0.1140 in units of 1/LumaScale
LumaR == 2989
LumaG == 5870
LumaB == 1140
LumaScale == 10000
HoldFrames == 5

Levels == {0, 26, 255}
Trees == {1, 2}
None == <<>>
Black == <<0, 0, 0>>

VARIABLES image, max_depth_arg, pc, nodes, dims, max_depth, tree_height,
          stack, build_calls, ret

vars == <<image, max_depth_arg, pc, nodes, dims, max_depth, tree_height,
          stack, build_calls, ret>>

\* ------------------------------------------------------------- arithmetic
RECURSIVE SumOver(_, _)
SumOver(f, S) ==
    IF S = {} THEN 0
    ELSE LET x == CHOOSE y \in S : TRUE IN f[x] + SumOver(f, S \ {x})

\* Python's int() of the rational n/2: truncation toward zero
IntOfHalves(n) == IF n >= 0 THEN n \div 2 ELSE -((-n) \div 2)

\* --------------------------------------------------------------- the image
CellsOf(w, h) == (0 .. (w - 1)) \X (0 .. (h - 1))

Sizes(cap) == {s \in (1 .. MaxW) \X (1 .. MaxH) : s[1] * s[2] <= cap}

Images(cap) ==
    UNION {{[size |-> s, px |-> p] : p \in [CellsOf(s[1], s[2]) -> Levels]}
           : s \in Sizes(cap)}

\* Image.getbbox(): the bounding box of the non-zero pixels, right and lower
\* edge exclusive; None when every pixel is zero
getbbox(img) ==
    LET nz == {c \in DOMAIN img.px : img.px[c] # 0}
        xs == {c[1] : c \in nz}
        ys == {c[2] : c \in nz}
        lo(S) == CHOOSE a \in S : \A b \in S : a <= b
        hi(S) == CHOOSE a \in S : \A b \in S : a >= b
    IN IF nz = {} THEN None
       ELSE <<lo(xs), lo(ys), hi(xs) + 1, hi(ys) + 1>>

\* the pixels of Image.crop(bbox): the whole image for None, the half-open
\* rectangle otherwise (empty when it has no width or no height)
crop(img, bbox) ==
    IF bbox = None THEN DOMAIN img.px
    ELSE {c \in DOMAIN img.px :
            /\ bbox[1] <= c[1] /\ c[1] < bbox[3]
            /\ bbox[2] <= c[2] /\ c[2] < bbox[4]}

\* one channel of Image.histogram() of the crop (the three channels of a grey
\* image coincide): level -> number of pixels
histogram(img, cells) ==
    [v \in Levels |-> Cardinality({c \in cells : img.px[c] = v})]

\* weighted_average: value = s1/total as the rational vnum/vden, and the
\* square of error, sum(x*(value-i)^2)/total = (total*s2 - s1^2)/total^2, as
\* the rational e2num/e2den; (0, 0) for an empty histogram
weighted_average(hist) ==
    LET average(h) ==
          LET total == SumOver(h, Levels)
              s1 == SumOver([v \in Levels |-> v * h[v]], Levels)
              s2 == SumOver([v \in Levels |-> v * v * h[v]], Levels)
          IN IF total > 0
             THEN [vnum |-> s1, vden |-> total,
                   e2num |-> total * s2 - s1 * s1, e2den |-> total * total]
             ELSE [vnum |-> 0, vden |-> 1, e2num |-> 0, e2den |-> 1]
    IN CHOOSE r \in {average(h) : h \in {hist}} : TRUE

\* color_from_histogram: the colour (int(r), int(g), int(b)) and the error
\* e = re*0.2989 + ge*0.5870 + be*0.1140.  With re = ge = be = sqrt(e2) the
\* error is w/LumaScale * sqrt(e2num/e2den), w = LumaR + LumaG + LumaB; it is
\* kept as that exact triple
color_from_histogram(img, cells) ==
    LET result(a) ==
          [color |-> <<a.vnum \div a.vden, a.vnum \div a.vden, a.vnum \div a.vden>>,
           error |-> [w |-> LumaR + LumaG + LumaB, e2num |-> a.e2num,
                      e2den |-> a.e2den]]
    IN CHOOSE r \in {result(a) : a \in {weighted_average(histogram(img, cells))}} :
         TRUE

\* error <= thr, for error = w/LumaScale * sqrt(e2num/e2den):
\*   w^2 * e2num <= thr^2 * LumaScale^2 * e2den, which with
\*   d = e2num - thr^2 * e2den reads  d * w^2 <= thr^2 * e2den * (LumaScale^2 - w^2)
ErrorLeq(err, thr) ==
    LET d == err.e2num - thr * thr * err.e2den
        w2 == err.w * err.w
        slack == thr * thr * err.e2den * (LumaScale * LumaScale - w2)
    IN d <= 0 \/ d <= slack \div w2

\* Node.__init__ (color_from_histogram is called once and its pair unpacked)
Node(img, bbox, depth) ==
    LET object(s) ==
          [bbox |-> bbox, depth |-> depth, children |-> None, leaf |-> FALSE,
           color |-> s.color, error |-> s.error]
    IN CHOOSE n \in {object(s) : s \in {color_from_histogram(img, crop(img, bbox))}} :
         TRUE

\* --------------------------------------------------------------- the build
\* StopRule with the depth bound off by one (> for >=)
StopRule_Strict(n, md) == n.depth > md \/ ErrorLeq(n.error, ERROR_THRESHOLD)

\* StopRule with a threshold one too low
StopRule_LowerThreshold(n, md) ==
    n.depth >= md \/ ErrorLeq(n.error, ERROR_THRESHOLD - 1)

\* StopRule without the depth bound
StopRule_NoDepth(n, md) == ErrorLeq(n.error, ERROR_THRESHOLD)

\* the condition of _build: the node is finalized as a leaf
StopRule(n, md) == n.depth >= md \/ ErrorLeq(n.error, ERROR_THRESHOLD)

\* SubdivideBoxes with the midpoint rounded up
SubdivideBoxes_Ceil(bbox) ==
    LET x0 == bbox[1]
        y0 == bbox[2]
        x1 == bbox[3]
        y1 == bbox[4]
        mid_x == IntOfHalves(2 * x0 + (x1 - x0) + 1)
        mid_y == IntOfHalves(2 * y0 + (y1 - y0) + 1)
    IN << <<x0, y0, mid_x, mid_y>>, <<mid_x, y0, x1, mid_y>>,
          <<x0, mid_y, mid_x, y1>>, <<mid_x, mid_y, x1, y1>> >>

\* the four child rectangles of _subdivide, in the order of root.children;
\* mid = int(x0 + (x1 - x0)/2), a true division followed by int()
SubdivideBoxes(bbox) ==
    LET x0 == bbox[1]
        y0 == bbox[2]
        x1 == bbox[3]
        y1 == bbox[4]
        mid_x == IntOfHalves(2 * x0 + (x1 - x0))
        mid_y == IntOfHalves(2 * y0 + (y1 - y0))
    IN << <<x0, y0, mid_x, mid_y>>, <<mid_x, y0, x1, mid_y>>,
          <<x0, mid_y, mid_x, y1>>, <<mid_x, mid_y, x1, y1>> >>

ChildRefs(p) == [i \in 1 .. 4 |-> Append(p, i - 1)]

\* the arena with four children of p created from boxes, at depth + 1, and
\* attached as p.children in that order
Attach(ns, p, img, boxes) ==
    LET kids == ChildRefs(p)
    IN [q \in DOMAIN ns \cup {kids[i] : i \in 1 .. 4} |->
          IF q = p THEN [ns[p] EXCEPT !.children = kids]
          ELSE IF q \in DOMAIN ns THEN ns[q]
          ELSE LET i == CHOOSE j \in 1 .. 4 : kids[j] = q
               IN Node(img, boxes[i], ns[p].depth + 1)]

\* _subdivide
Subdivide(ns, p, img) == Attach(ns, p, img, SubdivideBoxes(ns[p].bbox))

\* RaiseHeight as a plain assignment, without the comparison
RaiseHeight_Assign(h, d) == d

\* _build's update of tree_height on a leaf of depth d
RaiseHeight(h, d) == IF d > h THEN d ELSE h

\* MarkLeaf that leaves the flag alone
MarkLeaf_NoFlag(n) == n

\* _build's node.leaf = True
MarkLeaf(n) == [n EXCEPT !.leaf = TRUE]

\* a frame of _build: the node, and where the call stands: 0 at entry,
\* i in 1..4 before the call on children[i-1], 5 after the loop
Frame(p, i) == [node |-> p, i |-> i]

Top(t) == stack[t][Len(stack[t])]

Called(calls, p) ==
    IF p \in DOMAIN calls THEN [calls EXCEPT ![p] = @ + 1] ELSE (p :> 1) @@ calls

\* the top frame returns; the constructor returns with the last one
PopFrame(t) ==
    /\ stack' = [stack EXCEPT ![t] = SubSeq(@, 1, Len(@) - 1)]
    /\ pc' = [pc EXCEPT ![t] = IF Len(stack[t]) = 1 THEN "built" ELSE "building"]

\* no image is loaded yet
Init ==
    /\ image = [size |-> <<0, 0>>, px |-> <<>>]
    /\ max_depth_arg = 0
    /\ pc = [t \in Trees |-> "noimage"]
    /\ nodes = [t \in Trees |-> <<>>]
    /\ dims = [t \in Trees |-> <<0, 0>>]
    /\ max_depth = [t \in Trees |-> 0]
    /\ tree_height = [t \in Trees |-> 0]
    /\ stack = [t \in Trees |-> <<>>]
    /\ build_calls = [t \in Trees |-> <<>>]
    /\ ret = [op |-> "none", tree |-> 0, depth |-> 0, show_lines |-> FALSE,
              raised |-> FALSE, value |-> <<>>]

\* the caller's inputs: an image of at most cap pixels and the max_depth
\* argument, the same for every tree built from them
Load(cap) ==
    /\ \A t \in Trees : pc[t] = "noimage"
    /\ image' \in Images(cap)
    /\ max_depth_arg' \in -1 .. MaxDepthArg
    /\ pc' = [t \in Trees |-> "new"]
    /\ UNCHANGED <<nodes, dims, max_depth, tree_height, stack, build_calls, ret>>

\* QuadTree.__init__ up to the call of _build on the root
Construct(t) ==
    /\ pc[t] = "new"
    /\ \E bbox \in {getbbox(image)} :
         nodes' = [nodes EXCEPT ![t] = (<<>> :> Node(image, bbox, 0))]
    /\ dims' = [dims EXCEPT ![t] = image.size]
    /\ max_depth' = [max_depth EXCEPT ![t] = max_depth_arg]
    /\ tree_height' = [tree_height EXCEPT ![t] = 0]
    /\ stack' = [stack EXCEPT ![t] = <<Frame(<<>>, 0)>>]
    /\ build_calls' = [build_calls EXCEPT ![t] = Called(@, <<>>)]
    /\ pc' = [pc EXCEPT ![t] = "building"]
    /\ UNCHANGED <<image, max_depth_arg, ret>>

\* _build, the leaf branch: raise tree_height, set leaf, return
BuildLeaf(t) ==
    /\ pc[t] = "building"
    /\ Top(t).i = 0
    /\ LET p == Top(t).node
           n == nodes[t][p]
       IN /\ StopRule(n, max_depth[t])
          /\ tree_height' = [tree_height EXCEPT ![t] = RaiseHeight(@, n.depth)]
          /\ nodes' = [nodes EXCEPT ![t][p] = MarkLeaf(n)]
    /\ PopFrame(t)
    /\ UNCHANGED <<image, max_depth_arg, dims, max_depth, build_calls, ret>>

\* BuildSubdivide with the children attached in an arbitrary order (as from an
\* unordered collection)
BuildSubdivide_AnyOrder(t) ==
    /\ pc[t] = "building"
    /\ Top(t).i = 0
    /\ LET p == Top(t).node
           boxes == SubdivideBoxes(nodes[t][p].bbox)
       IN /\ ~StopRule(nodes[t][p], max_depth[t])
          /\ \E k \in 0 .. 3 :
               nodes' = [nodes EXCEPT ![t] =
                           Attach(@, p, image,
                                  [i \in 1 .. 4 |-> boxes[((i - 1 + k) % 4) + 1]])]
          /\ stack' = [stack EXCEPT ![t][Len(stack[t])] = Frame(p, 1)]
    /\ UNCHANGED <<image, max_depth_arg, pc, dims, max_depth, tree_height,
                   build_calls, ret>>

\* _build, the other branch: _subdivide, then the loop over the children
BuildSubdivide(t) ==
    /\ pc[t] = "building"
    /\ Top(t).i = 0
    /\ LET p == Top(t).node
       IN /\ ~StopRule(nodes[t][p], max_depth[t])
          /\ nodes' = [nodes EXCEPT ![t] = Subdivide(@, p, image)]
          /\ stack' = [stack EXCEPT ![t][Len(stack[t])] = Frame(p, 1)]
    /\ UNCHANGED <<image, max_depth_arg, pc, dims, max_depth, tree_height,
                   build_calls, ret>>

\* the loop of _build calls _build on the next child
BuildChild(t) ==
    /\ pc[t] = "building"
    /\ Top(t).i \in 1 .. 4
    /\ LET p == Top(t).node
           i == Top(t).i
           c == nodes[t][p].children[i]
           s == stack[t]
       IN /\ stack' = [stack EXCEPT ![t] =
                         Append([s EXCEPT ![Len(s)] = Frame(p, i + 1)], Frame(c, 0))]
          /\ build_calls' = [build_calls EXCEPT ![t] = Called(@, c)]
    /\ UNCHANGED <<image, max_depth_arg, pc, nodes, dims, max_depth,
                   tree_height, ret>>

\* the loop of _build is over: the call returns
BuildReturn(t) ==
    /\ pc[t] = "building"
    /\ Top(t).i = 5
    /\ PopFrame(t)
    /\ UNCHANGED <<image, max_depth_arg, nodes, dims, max_depth, tree_height,
                   build_calls, ret>>

\* ------------------------------------------------------------ the renderer
\* _get_leaf_nodes_recursion, with func = leaf_nodes.append
RECURSIVE get_leaf_nodes_recursion(_, _, _)
get_leaf_nodes_recursion(ns, p, depth) ==
    IF ns[p].leaf \/ ns[p].depth = depth THEN <<p>>
    ELSE IF ns[p].children # None
    THEN get_leaf_nodes_recursion(ns, ns[p].children[1], depth)
         \o get_leaf_nodes_recursion(ns, ns[p].children[2], depth)
         \o get_leaf_nodes_recursion(ns, ns[p].children[3], depth)
         \o get_leaf_nodes_recursion(ns, ns[p].children[4], depth)
    ELSE <<>>

\* get_leaf_nodes that ignores the requested depth and returns the leaves
get_leaf_nodes_LeavesOnly(t, depth) ==
    get_leaf_nodes_recursion(nodes[t], <<>>, -1)

\* _get_leaf_nodes: the selected nodes, in traversal order
get_leaf_nodes(t, depth) == get_leaf_nodes_recursion(nodes[t], <<>>, depth)

DrawCall(xy, fill, outline) == [xy |-> xy, fill |-> fill, outline |-> outline]

\* create_image: the canvas size and the rectangles drawn on it, in order;
\* draw.rectangle raises on a bbox of None
create_image(t, depth, show_lines) ==
    LET leaf_nodes == get_leaf_nodes(t, depth)
        ns == nodes[t]
        paint(i) == DrawCall(ns[leaf_nodes[i]].bbox, ns[leaf_nodes[i]].color,
                             IF show_lines THEN Black ELSE None)
    IN IF \E i \in 1 .. Len(leaf_nodes) : ns[leaf_nodes[i]].bbox = None
       THEN [raised |-> TRUE, size |-> <<>>, draws |-> <<>>]
       ELSE [raised |-> FALSE, size |-> dims[t],
             draws |-> <<DrawCall(<<0, 0, dims[t][1], dims[t][2]>>, Black, None)>>
                       \o [i \in 1 .. Len(leaf_nodes) |-> paint(i)]]

\* create_gif: the frames handed to save(), gif[0] and gif[1:]
create_gif(t, show_lines) ==
    LET final_image == create_image(t, tree_height[t], show_lines)
        h == tree_height[t]
        frame(i) == IF i <= h THEN create_image(t, i - 1, show_lines)
                    ELSE final_image
        gif == [i \in 1 .. h + HoldFrames |-> frame(i)]
    IN IF \E i \in 1 .. Len(gif) : gif[i].raised
       THEN [raised |-> TRUE, frames |-> <<>>]
       ELSE [raised |-> FALSE, frames |-> gif]

RenderDepths == 0 .. MaxDepthArg + 1

UnchangedTree == UNCHANGED <<image, max_depth_arg, pc, nodes, dims, max_depth,
                             tree_height, stack, build_calls>>

GetLeafNodes(t) ==
    /\ pc[t] = "built"
    /\ \E d \in RenderDepths :
         ret' = [op |-> "_get_leaf_nodes", tree |-> t, depth |-> d,
                 show_lines |-> FALSE, raised |-> FALSE,
                 value |-> get_leaf_nodes(t, d)]
    /\ UnchangedTree

CreateImage(t) ==
    /\ pc[t] = "built"
    /\ \E d \in RenderDepths, sl \in BOOLEAN :
         LET im == create_image(t, d, sl)
         IN ret' = [op |-> "create_image", tree |-> t, depth |-> d,
                    show_lines |-> sl, raised |-> im.raised, value |-> im]
    /\ UnchangedTree

CreateGif(t) ==
    /\ pc[t] = "built"
    /\ \E sl \in BOOLEAN :
         LET g == create_gif(t, sl)
         IN ret' = [op |-> "create_gif", tree |-> t, depth |-> tree_height[t],
                    show_lines |-> sl, raised |-> g.raised, value |-> g.frames]
    /\ UnchangedTree

\* --------------------------------------------------------- specifications
BuildStep(t) ==
    \/ Construct(t)
    \/ BuildLeaf(t)
    \/ BuildSubdivide(t)
    \/ BuildChild(t)
    \/ BuildReturn(t)

Next ==
    \/ Load(MaxPixels)
    \/ BuildStep(1)
    \/ GetLeafNodes(1)
    \/ CreateImage(1)
    \/ CreateGif(1)

Spec == Init /\ [][Next]_vars

\* the build pass alone, run to completion by its single thread
LiveNext ==
    \/ Load(MaxPixels)
    \/ BuildStep(1)

LiveSpec == Init /\ [][LiveNext]_vars /\ WF_vars(BuildStep(1))

\* two trees built side by side from the same image and max_depth
DetNext ==
    \/ Load(DetMaxPixels)
    \/ \E t \in Trees : BuildStep(t)

DetSpec == Init /\ [][DetNext]_vars

\* ------------------------------------------------------------ properties
Built(t) == pc[t] = "built"

\* the pixels of a rectangle taken as half-open, [x0, x1) x [y0, y1)
Rect(b) == (b[1] .. (b[3] - 1)) \X (b[2] .. (b[4] - 1))

Area(b) == (b[3] - b[1]) * (b[4] - b[2])

RECURSIVE SumSeq(_)
SumSeq(q) == IF q = <<>> THEN 0 ELSE Head(q) + SumSeq(Tail(q))

IsPrefix(q, p) == Len(q) <= Len(p) /\ SubSeq(p, 1, Len(q)) = q

HasFourChildren(n) == n.children # None /\ Len(n.children) = 4

\* the rectangles a rendering call returned or painted, in order
RenderedBoxes ==
    IF ret.op = "_get_leaf_nodes"
    THEN [i \in 1 .. Len(ret.value) |-> nodes[ret.tree][ret.value[i]].bbox]
    ELSE [i \in 1 .. Len(ret.value.draws) - 1 |-> ret.value.draws[i + 1].xy]

\* C1: the rectangles returned by _get_leaf_nodes(d) and painted by
\* create_image(d) partition the width x height canvas: their areas sum to
\* width*height and no two of them overlap.
C1_RenderPartitionsCanvas ==
    ret.op \in {"_get_leaf_nodes", "create_image"} =>
      /\ ~ret.raised
      /\ \A i \in DOMAIN RenderedBoxes : RenderedBoxes[i] # None
      /\ SumSeq([i \in DOMAIN RenderedBoxes |-> Area(RenderedBoxes[i])])
           = dims[ret.tree][1] * dims[ret.tree][2]
      /\ \A i, j \in DOMAIN RenderedBoxes :
           i # j => Rect(RenderedBoxes[i]) \cap Rect(RenderedBoxes[j]) = {}

\* C2: once the constructor has returned, every node of the tree is either a
\* leaf without children or a non-leaf with exactly four children.
C2_LeafXorFourChildren ==
    Built(1) =>
      \A p \in DOMAIN nodes[1] :
        LET n == nodes[1][p]
        IN /\ n.leaf # HasFourChildren(n)
           /\ n.leaf => n.children = None
           /\ HasFourChildren(n) =>
                \A i \in 1 .. 4 : n.children[i] \in DOMAIN nodes[1]

C2_Witness ==
    /\ Built(1)
    /\ \E p \in DOMAIN nodes[1] : ~nodes[1][p].leaf
    /\ \E p \in DOMAIN nodes[1] : nodes[1][p].leaf /\ nodes[1][p].depth = 2

\* C3 as claimed: tree_height <= max_depth at every point of the build and
\* after it, whatever max_depth was passed to the constructor.
C3_HeightWithinMaxDepth_AnyArg ==
    pc[1] \in {"building", "built"} => tree_height[1] <= max_depth[1]

\* C3 amended: tree_height <= max_depth at every point of the build and after
\* it, for every integer max_depth >= 0 passed to the constructor.
C3_HeightWithinMaxDepth ==
    (pc[1] \in {"building", "built"} /\ max_depth[1] >= 0) =>
      tree_height[1] <= max_depth[1]

\* the depth bound stops a node whose error is above the threshold
C3_Witness ==
    /\ Built(1)
    /\ max_depth[1] >= 1
    /\ tree_height[1] = max_depth[1]
    /\ \E p \in DOMAIN nodes[1] :
         /\ nodes[1][p].depth = max_depth[1]
         /\ ~ErrorLeq(nodes[1][p].error, 13)

\* C4: create_gif assembles exactly tree_height + 5 frames: frame i for
\* 0 <= i < tree_height is create_image(i, show_lines), and the last five are
\* create_image(tree_height, show_lines).
C4_GifFrames ==
    ret.op = "create_gif" =>
      LET h == tree_height[ret.tree]
          g == ret.value
      IN /\ ~ret.raised
         /\ Len(g) = h + 5
         /\ \A i \in 1 .. h : g[i] = create_image(ret.tree, i - 1, ret.show_lines)
         /\ \A i \in h + 1 .. h + 5 :
              g[i] = create_image(ret.tree, h, ret.show_lines)
         /\ \A i \in 1 .. h + 5 : ~g[i].raised

C6_StoppingRule ==
    Built(1) =>
      /\ \A p \in DOMAIN nodes[1] :
           LET n == nodes[1][p]
           IN /\ n.leaf <=> (n.depth >= max_depth[1] \/ ErrorLeq(n.error, 13))
              /\ ~n.leaf =>
                   /\ HasFourChildren(n)
                   /\ \A i \in 1 .. 4 : n.children[i] \in DOMAIN nodes[1]
      /\ max_depth[1] = 0 => (nodes[1][<<>>].leaf /\ tree_height[1] = 0)

\* a subdivided root with a child stopped by the depth bound alone (its error
\* is above 13) and a child whose error is at most 13
C6_Witness ==
    /\ Built(1)
    /\ ~nodes[1][<<>>].leaf
    /\ \E p \in DOMAIN nodes[1] :
         /\ nodes[1][p].leaf
         /\ nodes[1][p].depth >= max_depth[1]
         /\ ~ErrorLeq(nodes[1][p].error, 13)
    /\ \E p \in DOMAIN nodes[1] :
         /\ nodes[1][p].leaf
         /\ ErrorLeq(nodes[1][p].error, 13)

\* C7: the children of a subdivided node with bbox (x0,y0,x1,y1) are, in
\* order, (x0,y0,mx,my), (mx,y0,x1,my), (x0,my,mx,y1), (mx,my,x1,y1) with
\* mx = x0 + floor((x1-x0)/2), my = y0 + floor((y1-y0)/2), each at depth + 1,
\* and as half-open rectangles they tile the parent without gap or overlap.
C7_ChildrenTileParent ==
    \A p \in DOMAIN nodes[1] :
      LET n == nodes[1][p]
          x0 == n.bbox[1]
          y0 == n.bbox[2]
          x1 == n.bbox[3]
          y1 == n.bbox[4]
          mx == x0 + ((x1 - x0) \div 2)
          my == y0 + ((y1 - y0) \div 2)
          kid(i) == nodes[1][n.children[i]]
      IN n.children # None =>
           /\ Len(n.children) = 4
           /\ kid(1).bbox = <<x0, y0, mx, my>>
           /\ kid(2).bbox = <<mx, y0, x1, my>>
           /\ kid(3).bbox = <<x0, my, mx, y1>>
           /\ kid(4).bbox = <<mx, my, x1, y1>>
           /\ \A i \in 1 .. 4 : kid(i).depth = n.depth + 1
           /\ UNION {Rect(kid(i).bbox) : i \in 1 .. 4} = Rect(n.bbox)
           /\ \A i, j \in 1 .. 4 :
                i # j => Rect(kid(i).bbox) \cap Rect(kid(j).bbox) = {}

\* a subdivided node of odd width with a zero-width child
C7_Witness ==
    \E p \in DOMAIN nodes[1] :
      LET n == nodes[1][p]
      IN /\ n.children # None
         /\ (n.bbox[4] - n.bbox[2]) % 2 = 1
         /\ \E i \in 1 .. 4 :
              LET b == nodes[1][n.children[i]].bbox
              IN b[1] = b[3] /\ b[2] < b[4]

\* C8: _get_leaf_nodes(d) selects on every root-to-leaf path exactly one
\* node, the shallowest one that is a leaf or at depth d; no descendant of a
\* selected node is selected, and every selected node is a leaf or at depth d.
C8_RenderSelection ==
    ret.op = "_get_leaf_nodes" =>
      LET ns == nodes[ret.tree]
          sel == {ret.value[i] : i \in 1 .. Len(ret.value)}
          stops(q) == ns[q].leaf \/ ns[q].depth = ret.depth
      IN /\ Cardinality(sel) = Len(ret.value)
         /\ sel \subseteq DOMAIN ns
         /\ \A q \in sel : stops(q)
         /\ \A q, r \in sel : q # r => ~IsPrefix(q, r)
         /\ \A p \in DOMAIN ns :
              ns[p].leaf =>
                LET path == {q \in DOMAIN ns : IsPrefix(q, p)}
                IN /\ Cardinality(path \cap sel) = 1
                   /\ \A q \in path \cap sel :
                        \A r \in path : stops(r) => Len(q) <= Len(r)

\* a subdivided node at the requested depth is selected as one rectangle,
\* beside a leaf
C8_Witness ==
    /\ ret.op = "_get_leaf_nodes"
    /\ \E i \in 1 .. Len(ret.value) :
         /\ ~nodes[ret.tree][ret.value[i]].leaf
         /\ nodes[ret.tree][ret.value[i]].depth = ret.depth
    /\ \E i \in 1 .. Len(ret.value) : nodes[ret.tree][ret.value[i]].leaf

C9_Safe ==
    /\ \A p \in DOMAIN nodes[1] : nodes[1][p].depth <= max_depth_arg
    /\ \A p \in DOMAIN build_calls[1] : build_calls[1][p] = 1
    /\ Built(1) => DOMAIN build_calls[1] = DOMAIN nodes[1]

C9_Done ==
    /\ Built(1)
    /\ \A p \in DOMAIN nodes[1] :
         nodes[1][p].leaf # HasFourChildren(nodes[1][p])

\* C9: for every image and every max_depth >= 0 the build terminates: every
\* node created has depth <= max_depth, _build is called on each node once,
\* and the build reaches a state where every node is a leaf or has four
\* children, zero-area rectangles included.
C9_BuildTerminates ==
    /\ [](max_depth_arg >= 0 => C9_Safe)
    /\ (pc[1] = "new" /\ max_depth_arg >= 0) ~> C9_Done

\* a finished build with a zero-area node at the depth bound
C9_Witness ==
    /\ max_depth_arg >= 0
    /\ C9_Done
    /\ \E p \in DOMAIN nodes[1] :
         /\ nodes[1][p].bbox # None
         /\ Area(nodes[1][p].bbox) = 0
         /\ nodes[1][p].depth = max_depth_arg

MaxLeafDepth(ns) ==
    LET ds == {0} \cup {ns[p].depth : p \in {q \in DOMAIN ns : ns[q].leaf}}
    IN CHOOSE d \in ds : \A e \in ds : e <= d

\* C10: tree_height is at every point of the build, and after it, the
\* maximum depth among the leaves finalized so far (0 when there is none),
\* and it never decreases.
C10_HeightIsMaxLeafDepth ==
    /\ [](tree_height[1] = MaxLeafDepth(nodes[1]))
    /\ [][tree_height'[1] >= tree_height[1]]_vars

\* a leaf of depth 1 finalized after a leaf of depth 2
C10_Witness ==
    /\ Built(1)
    /\ tree_height[1] = 2
    /\ <<1, 0>> \in DOMAIN nodes[1]
    /\ nodes[1][<<2>>].leaf

====
